---- MODULE Spec2Model ----
(***************************************************************************)
(* Carnival language extension (src/src/extension.ts): the diagnostics     *)
(* pass updateDiagnostics, the quick-fix provider and the completion       *)
(* provider, modelled over documents whose text is a sequence of           *)
(* one-character strings.                                                  *)
(***************************************************************************)
EXTENDS Integers, Sequences, FiniteSets, TLC

VARIABLES
    docs,                  \* uri -> [text, languageId]: the host's open documents
    diagnosticCollection,  \* uri -> sequence of diagnostics (the "carnival" collection)
    INSTRUCTIONS,          \* the instruction table, in insertion order
    lastEvent,             \* the event the host delivered last: [kind, uri]
    completionItems        \* the list returned by the last completion request

vars == <<docs, diagnosticCollection, INSTRUCTIONS, lastEvent, completionItems>>

----------------------------------------------------------------------------
(* Characters and strings.  A string is a sequence of 1-character strings. *)

LowerToUpper ==
    [a |-> "A", b |-> "B", c |-> "C", d |-> "D", e |-> "E", f |-> "F", g |-> "G",
     h |-> "H", i |-> "I", j |-> "J", k |-> "K", l |-> "L", m |-> "M", n |-> "N",
     o |-> "O", p |-> "P", q |-> "Q", r |-> "R", s |-> "S", t |-> "T", u |-> "U",
     v |-> "V", w |-> "W", x |-> "X", y |-> "Y", z |-> "Z"]

LowerLetters == DOMAIN LowerToUpper
UpperLetters == {LowerToUpper[c] : c \in LowerLetters}

UpperToLower == [C \in UpperLetters |-> CHOOSE c \in LowerLetters : LowerToUpper[c] = C]

DigitValue ==
    ("0" :> 0) @@ ("1" :> 1) @@ ("2" :> 2) @@ ("3" :> 3) @@ ("4" :> 4) @@
    ("5" :> 5) @@ ("6" :> 6) @@ ("7" :> 7) @@ ("8" :> 8) @@ ("9" :> 9)

\* \d
IsDigit(c) == c \in DOMAIN DigitValue
\* \w
IsWord(c) == c \in LowerLetters \/ c \in UpperLetters \/ IsDigit(c) \/ c = "_"
\* \s, as far as the characters of the model go
IsSpace(c) == c \in {" ", "\t", "\n", "\r"}

toUpperCaseChar(c) == IF c \in LowerLetters THEN LowerToUpper[c] ELSE c
toLowerCaseChar(c) == IF c \in UpperLetters THEN UpperToLower[c] ELSE c

toUpperCase(s) == [i \in 1..Len(s) |-> toUpperCaseChar(s[i])]
toLowerCase(s) == [i \in 1..Len(s) |-> toLowerCaseChar(s[i])]

\* String.prototype.startsWith
startsWith(s, prefix) ==
    /\ Len(prefix) <= Len(s)
    /\ SubSeq(s, 1, Len(prefix)) = prefix

\* String.prototype.indexOf, 0-based, -1 when absent
indexOf(s, sub) ==
    LET hits == {i \in 0..(Len(s) - Len(sub)) : SubSeq(s, i + 1, i + Len(sub)) = sub}
    IN  IF hits = {} THEN -1 ELSE CHOOSE i \in hits : \A j \in hits : i <= j

\* String.prototype.includes
includes(s, sub) == indexOf(s, sub) # -1

\* String.prototype.replace with a string pattern: the first occurrence only
replace(s, pattern, by) ==
    LET at == indexOf(s, pattern)
    IN  IF at = -1 THEN s
        ELSE SubSeq(s, 1, at) \o by \o SubSeq(s, at + Len(pattern) + 1, Len(s))

\* String.prototype.trim
trim(s) ==
    LET keep == {i \in 1..Len(s) : ~IsSpace(s[i])}
    IN  IF keep = {} THEN <<>>
        ELSE SubSeq(s, CHOOSE i \in keep : \A j \in keep : i <= j,
                       CHOOSE i \in keep : \A j \in keep : i >= j)

\* parseInt of a run of decimal digits
RECURSIVE parseInt(_)
parseInt(s) ==
    IF s = <<>> THEN 0
    ELSE 10 * parseInt(SubSeq(s, 1, Len(s) - 1)) + DigitValue[s[Len(s)]]

\* text.split(/\r?\n/)
RECURSIVE split(_)
split(text) ==
    LET nl == indexOf(text, <<"\n">>)
    IN  IF nl = -1 THEN <<text>>
        ELSE LET cut == IF nl >= 1 /\ text[nl] = "\r" THEN nl - 1 ELSE nl
             IN  <<SubSeq(text, 1, cut)>> \o split(SubSeq(text, nl + 2, Len(text)))

\* TextDocument.positionAt: offset -> <<line, character>>
positionAt(text, offset) ==
    LET breaks == {i \in 1..offset : text[i] = "\n"}
        lineStart == IF breaks = {} THEN 0 ELSE CHOOSE i \in breaks : \A j \in breaks : i >= j
    IN  <<Cardinality(breaks), offset - lineStart>>

\* TextDocument.offsetAt: <<line, character>> -> offset
offsetAt(text, position) ==
    LET starts == {0} \cup {i \in 1..Len(text) : text[i] = "\n"}
        lineStart == CHOOSE i \in starts :
                        Cardinality({j \in starts : j < i}) = position[1]
    IN  lineStart + position[2]

----------------------------------------------------------------------------
(* String constants of the source. *)

MetaName == <<"m","e","t","a",".","n","a","m","e">>
MetaVersion == <<"m","e","t","a",".","v","e","r","s","i","o","n">>
MetaAuthor == <<"m","e","t","a",".","a","u","t","h","o","r">>
MissingPrefix == <<"m","i","s","s","i","n","g","_">>
MissingMetaPrefix == <<"m","i","s","s","i","n","g","_","m","e","t","a">>
Undefined == <<"undefined">>

\* const INSTRUCTIONS = { ... }: mnemonic -> signature, in insertion order
InstructionTable == <<
    [mnemonic |-> <<"M","O","V">>, signature |-> << <<"Reg","Num">>, <<"Reg">> >>],
    [mnemonic |-> <<"L","O","D">>, signature |-> << <<"Num">>, <<"Reg">> >>],
    [mnemonic |-> <<"S","T","R">>, signature |-> << <<"Reg","Num">>, <<"Num">> >>],
    [mnemonic |-> <<"P","S","H">>, signature |-> << <<"Reg","Num">> >>],
    [mnemonic |-> <<"P","O","P">>, signature |-> << <<"Reg">> >>],
    [mnemonic |-> <<"A","D","D">>, signature |-> << <<"Reg","Num">>, <<"Reg","Num">>, <<"Reg">> >>],
    [mnemonic |-> <<"S","U","B">>, signature |-> << <<"Reg","Num">>, <<"Reg","Num">>, <<"Reg">> >>],
    [mnemonic |-> <<"M","O","D">>, signature |-> << <<"Reg","Num">>, <<"Reg","Num">>, <<"Reg">> >>],
    [mnemonic |-> <<"X","O","R">>, signature |-> << <<"Reg","Num">>, <<"Reg","Num">>, <<"Reg">> >>],
    [mnemonic |-> <<"A","N","D">>, signature |-> << <<"Reg","Num">>, <<"Reg","Num">>, <<"Reg">> >>],
    [mnemonic |-> <<"N","O","T">>, signature |-> << <<"Reg","Num">>, <<"Reg">> >>],
    [mnemonic |-> <<"O","R">>,     signature |-> << <<"Reg","Num">>, <<"Reg","Num">>, <<"Reg">> >>],
    [mnemonic |-> <<"J","M","P">>, signature |-> << <<"Num","Label">> >>],
    [mnemonic |-> <<"C","A","L">>, signature |-> << <<"Num","Label">> >>],
    [mnemonic |-> <<"R","E","T">>, signature |-> << >>],
    [mnemonic |-> <<"B","R","Z">>, signature |-> << <<"Reg","Num">>, <<"Num","Label">> >>],
    [mnemonic |-> <<"B","N","Z">>, signature |-> << <<"Reg","Num">>, <<"Num","Label">> >>],
    [mnemonic |-> <<"I","N">>,     signature |-> << <<"Num">>, <<"Reg">> >>],
    [mnemonic |-> <<"O","U","T">>, signature |-> << <<"Num">>, <<"Reg","Num","String">> >>],
    [mnemonic |-> <<"G","I","P">>, signature |-> << <<"Reg">> >>],
    [mnemonic |-> <<"H","L","T">>, signature |-> << >>],
    [mnemonic |-> <<"B","R","G">>, signature |-> << <<"Reg","Num">>, <<"Reg","Num">>, <<"Label","Num">> >>],
    [mnemonic |-> <<"B","N","G">>, signature |-> << <<"Reg","Num">>, <<"Reg","Num">>, <<"Label","Num">> >>],
    [mnemonic |-> <<"B","R","L">>, signature |-> << <<"Reg","Num">>, <<"Reg","Num">>, <<"Label","Num">> >>],
    [mnemonic |-> <<"B","N","L">>, signature |-> << <<"Reg","Num">>, <<"Reg","Num">>, <<"Label","Num">> >>]
>>

\* Object.keys(table)
Keys(table) == [i \in 1..Len(table) |-> table[i].mnemonic]

\* table[instruction] is defined
HasSignature(table, instruction) ==
    \E i \in 1..Len(table) : table[i].mnemonic = instruction

\* table[instruction]
SignatureOf(table, instruction) ==
    table[CHOOSE i \in 1..Len(table) : table[i].mnemonic = instruction].signature

----------------------------------------------------------------------------
(* Diagnostics. *)

\* new vscode.Range(startLine, startCharacter, endLine, endCharacter)
Range(l1, c1, l2, c2) == <<l1, c1, l2, c2>>

\* The message templates of the source, with their interpolated values.
Message(template, instruction, argument, kinds, expected, got) ==
    [template |-> template, instruction |-> instruction, argument |-> argument,
     kinds |-> kinds, expected |-> expected, got |-> got]

\* new vscode.Diagnostic(range, message, severity); code is undefined until set
Diagnostic(range, message, severity) ==
    [range |-> range, message |-> message, severity |-> severity, code |-> Undefined]

----------------------------------------------------------------------------
(* Check for missing meta keys (lines 41-54). *)

requiredKeys == <<MetaName, MetaVersion, MetaAuthor>>

MissingKeyDiagnostic(key) ==
    [Diagnostic(Range(0, 0, 0, 0),
                Message("Missing key", <<>>, key, <<>>, 0, 0),
                "Information")
        EXCEPT !.code = MissingPrefix \o key]

\* The meta check with the key looked for at the start of the text only
RECURSIVE CheckMetaAtStartFrom(_, _)
CheckMetaAtStartFrom(text, k) ==
    IF k > Len(requiredKeys) THEN <<>>
    ELSE (IF ~startsWith(text, requiredKeys[k])
            THEN <<MissingKeyDiagnostic(requiredKeys[k])>> ELSE <<>>)
         \o CheckMetaAtStartFrom(text, k + 1)

RECURSIVE CheckMetaFrom(_, _)
CheckMetaFrom(text, k) ==
    IF k > Len(requiredKeys) THEN <<>>
    ELSE (IF ~includes(text, requiredKeys[k])
            THEN <<MissingKeyDiagnostic(requiredKeys[k])>> ELSE <<>>)
         \o CheckMetaFrom(text, k + 1)

CheckMetaKeys(text) == CheckMetaFrom(text, 1)

----------------------------------------------------------------------------
(* Check for invalid register usage (lines 56-70). *)

\* \b between offsets k-1 and k (0 <= k <= Len(text))
WordBoundary(text, k) ==
    LET before == k >= 1 /\ IsWord(text[k])
        after  == k < Len(text) /\ IsWord(text[k + 1])
    IN  before # after

\* Length of the match of /\b(r\d{1,2})\b/i starting at offset i, 0 if none.
\* \d{1,2} is greedy: two digits are tried before one.
RegisterMatchLen(text, i) ==
    IF /\ i < Len(text)
       /\ WordBoundary(text, i)
       /\ text[i + 1] \in {"r", "R"}
    THEN IF /\ i + 3 <= Len(text)
            /\ IsDigit(text[i + 2])
            /\ IsDigit(text[i + 3])
            /\ WordBoundary(text, i + 3)
         THEN 3
         ELSE IF /\ i + 2 <= Len(text)
                 /\ IsDigit(text[i + 2])
                 /\ WordBoundary(text, i + 2)
              THEN 2
              ELSE 0
    ELSE 0

\* registerRegex.exec(text) with registerRegex.lastIndex = lastIndex:
\* the leftmost match at or after lastIndex, or null (index -1)
RegisterExec(text, lastIndex) ==
    LET hits == {i \in lastIndex..(Len(text) - 1) : RegisterMatchLen(text, i) > 0}
    IN  IF hits = {} THEN [index |-> -1, group |-> <<>>]
        ELSE LET i == CHOOSE h \in hits : \A g \in hits : h <= g
             IN  [index |-> i, group |-> SubSeq(text, i + 1, i + RegisterMatchLen(text, i))]

InvalidRegisterDiagnostic(text, match) ==
    LET startPos == positionAt(text, match.index)
        endPos   == positionAt(text, match.index + Len(match.group))
    IN  Diagnostic(Range(startPos[1], startPos[2], endPos[1], endPos[2]),
                   Message("Invalid register", <<>>, match.group, <<>>, 0, 0),
                   "Error")

\* The range test off by one: regNum > 16
RegisterOutOfRangeOffByOne(group) ==
    LET regNum == parseInt(SubSeq(group, 2, Len(group)))
    IN  regNum < 0 \/ regNum > 16

\* regNum < 0 || regNum > 15
RegisterOutOfRange(group) ==
    LET regNum == parseInt(SubSeq(group, 2, Len(group)))
    IN  regNum < 0 \/ regNum > 15

RECURSIVE CheckRegistersFrom(_, _)
CheckRegistersFrom(text, lastIndex) ==
    LET match == RegisterExec(text, lastIndex)
    IN  IF match.index = -1 THEN <<>>
        ELSE (IF RegisterOutOfRange(match.group)
                THEN <<InvalidRegisterDiagnostic(text, match)>> ELSE <<>>)
             \o CheckRegistersFrom(text, match.index + Len(match.group))

CheckRegisters(text) == CheckRegistersFrom(text, 0)

----------------------------------------------------------------------------
(* Per-line instruction check (lines 72-130). *)

\* line.match(/'[^']*'|\S+/g), from 1-based position p on; null is <<>>
RECURSIVE MatchParts(_, _)
MatchParts(line, p) ==
    IF p > Len(line) THEN <<>>
    ELSE LET closing == {q \in (p + 1)..Len(line) : line[q] = "'"}
         IN  IF line[p] = "'" /\ closing # {}
             THEN LET q == CHOOSE c \in closing : \A d \in closing : c <= d
                  IN  <<SubSeq(line, p, q)>> \o MatchParts(line, q + 1)
             ELSE IF ~IsSpace(line[p])
                  THEN LET stops == {q \in (p + 1)..Len(line) : IsSpace(line[q])}
                           e == IF stops = {} THEN Len(line)
                                ELSE (CHOOSE c \in stops : \A d \in stops : c <= d) - 1
                       IN  <<SubSeq(line, p, e)>> \o MatchParts(line, e + 1)
                  ELSE MatchParts(line, p + 1)

\* The kind tests with the register range re-verified in the Reg test
KindMatchesRangeChecked(kind, actual) ==
    \/ /\ kind = "Reg"
       /\ Len(actual) \in {2, 3}
       /\ actual[1] \in {"r", "R"}
       /\ \A i \in 2..Len(actual) : IsDigit(actual[i])
       /\ parseInt(SubSeq(actual, 2, Len(actual))) <= 15
    \/ /\ kind = "Num"
       /\ Len(actual) >= 1
       /\ \A i \in 1..Len(actual) : IsDigit(actual[i])
    \/ /\ kind = "Label"
       /\ Len(actual) >= 1
       /\ \/ actual[1] = "."
          \/ actual[1] \in LowerLetters \cup UpperLetters \cup {"_"}
       /\ \A i \in 2..Len(actual) : IsWord(actual[i]) \/ actual[i] = "."
    \/ /\ kind = "String"
       /\ Len(actual) >= 2
       /\ actual[1] = "'"
       /\ actual[Len(actual)] = "'"
       /\ \A i \in 2..(Len(actual) - 1) : actual[i] \notin {"\n", "\r"}

\* The four kind tests of lines 116-119
KindMatches(kind, actual) ==
    \/ /\ kind = "Reg"                                   \* /^r\d{1,2}$/i
       /\ Len(actual) \in {2, 3}
       /\ actual[1] \in {"r", "R"}
       /\ \A i \in 2..Len(actual) : IsDigit(actual[i])
    \/ /\ kind = "Num"                                   \* /^\d+$/
       /\ Len(actual) >= 1
       /\ \A i \in 1..Len(actual) : IsDigit(actual[i])
    \/ /\ kind = "Label"                                 \* /^(\.|[A-Za-z_])[\w.]*$/
       /\ Len(actual) >= 1
       /\ \/ actual[1] = "."
          \/ actual[1] \in LowerLetters \cup UpperLetters \cup {"_"}
       /\ \A i \in 2..Len(actual) : IsWord(actual[i]) \/ actual[i] = "."
    \/ /\ kind = "String"                                \* /^'.*'$/
       /\ Len(actual) >= 2
       /\ actual[1] = "'"
       /\ actual[Len(actual)] = "'"
       /\ \A i \in 2..(Len(actual) - 1) : actual[i] \notin {"\n", "\r"}

\* The kind loop with `valid` starting out true
ArgumentValidInitTrue(expectedKinds, actual) ==
    \/ TRUE
    \/ \E k \in 1..Len(expectedKinds) : KindMatches(expectedKinds[k], actual)

\* for (const kind of expectedKinds) ... valid = true
ArgumentValid(expectedKinds, actual) ==
    \E k \in 1..Len(expectedKinds) : KindMatches(expectedKinds[k], actual)

\* for (let i = 0; i < signature.length; i++) ..., from slot i (1-based) on
RECURSIVE CheckArgumentsFrom(_, _, _, _, _, _)
CheckArgumentsFrom(lineNum, line, instruction, signature, args, i) ==
    IF i > Len(signature) THEN <<>>
    ELSE (IF ~ArgumentValid(signature[i], args[i])
            THEN <<Diagnostic(Range(lineNum, 0, lineNum, Len(line)),
                              Message("Invalid argument", instruction, args[i],
                                      signature[i], 0, 0),
                              "Error")>>
            ELSE <<>>)
         \o CheckArgumentsFrom(lineNum, line, instruction, signature, args, i + 1)

metaKeys == {MetaName, MetaVersion, MetaAuthor}

\* The branch for a first token with no signature (lines 83-97)
CheckUnknown(lineNum, firstPart, instruction) ==
    IF startsWith(firstPart, <<"#">>) THEN <<>>
    ELSE IF firstPart \in metaKeys THEN <<>>
    ELSE IF startsWith(firstPart, <<".">>) THEN <<>>
    ELSE <<Diagnostic(Range(lineNum, 0, lineNum, Len(firstPart)),
                      Message("Invalid instruction", instruction, <<>>, <<>>, 0, 0),
                      "Error")>>

\* The argument count check without its `continue`: the operands present are
\* type-checked as well
CheckSignatureNoContinue(lineNum, line, instruction, signature, args) ==
    IF Len(args) # Len(signature)
    THEN <<Diagnostic(Range(lineNum, 0, lineNum, Len(line)),
                      Message("Argument count", instruction, <<>>, <<>>,
                              Len(signature), Len(args)),
                      "Error")>>
         \o CheckArgumentsFrom(lineNum, line, instruction,
                               SubSeq(signature, 1,
                                      IF Len(args) < Len(signature)
                                        THEN Len(args) ELSE Len(signature)),
                               args, 1)
    ELSE CheckArgumentsFrom(lineNum, line, instruction, signature, args, 1)

\* Argument count, then argument type checks (lines 99-129)
CheckSignature(lineNum, line, instruction, signature, args) ==
    IF Len(args) # Len(signature)
    THEN <<Diagnostic(Range(lineNum, 0, lineNum, Len(line)),
                      Message("Argument count", instruction, <<>>, <<>>,
                              Len(signature), Len(args)),
                      "Error")>>
    ELSE CheckArgumentsFrom(lineNum, line, instruction, signature, args, 1)

\* The body of the loop over lines (lines 74-129) for lines[lineNum] = rawLine
CheckLine(table, lineNum, rawLine) ==
    LET line == trim(rawLine)
    IN  IF line = <<>> THEN <<>>
        ELSE
        LET parts == MatchParts(line, 1)
        IN  IF parts = <<>> THEN <<>>
            ELSE
            LET instruction == toUpperCase(parts[1])
                args == Tail(parts)
            IN  IF ~HasSignature(table, instruction)
                THEN CheckUnknown(lineNum, parts[1], instruction)
                ELSE CheckSignature(lineNum, line, instruction,
                                    SignatureOf(table, instruction), args)

\* for (let lineNum = 0; lineNum < lines.length; lineNum++), from lineNum on
RECURSIVE CheckLinesFrom(_, _, _)
CheckLinesFrom(table, lines, lineNum) ==
    IF lineNum >= Len(lines) THEN <<>>
    ELSE CheckLine(table, lineNum, lines[lineNum + 1])
         \o CheckLinesFrom(table, lines, lineNum + 1)

CheckInstructions(table, text) == CheckLinesFrom(table, split(text), 0)

\* The three checks with the register scan run first
ValidateRegistersFirst(table, text) ==
    CheckRegisters(text) \o CheckMetaKeys(text) \o CheckInstructions(table, text)

\* The diagnostics array built by one run of updateDiagnostics (lines 38-130)
Validate(table, text) ==
    CheckMetaKeys(text) \o CheckRegisters(text) \o CheckInstructions(table, text)

----------------------------------------------------------------------------
(* The quick-fix provider (lines 155-184). *)

\* const defaults: Record<string, string>
defaults(key) ==
    CASE key = MetaName    -> <<"P","r","o","g","r","a","m">>
      [] key = MetaVersion -> <<"0",".","1">>
      [] key = MetaAuthor  -> <<"M","e">>
      [] OTHER             -> <<"u","n","d","e","f","i","n","e","d">>

\* The code action with the line break left out of the inserted text
InsertKeyFixNoLineBreak(uri, diagnostic) ==
    LET key == replace(diagnostic.code, MissingPrefix, <<>>)
    IN  [title |-> <<"I","n","s","e","r","t"," ">> \o key,
         edit |-> [uri |-> uri,
                   position |-> <<0, 0>>,
                   newText |-> key \o <<" ", "'">> \o defaults(key) \o <<"'">>],
         diagnostics |-> <<diagnostic>>]

\* The code action built for one diagnostic whose code starts with missing_meta
InsertKeyFix(uri, diagnostic) ==
    LET key == replace(diagnostic.code, MissingPrefix, <<>>)
    IN  [title |-> <<"I","n","s","e","r","t"," ">> \o key,
         edit |-> [uri |-> uri,
                   position |-> <<0, 0>>,
                   newText |-> key \o <<" ", "'">> \o defaults(key) \o <<"'", "\n">>],
         diagnostics |-> <<diagnostic>>]

\* provideCodeActions(document, range, context, token), from context.diagnostics[k] on
RECURSIVE CodeActionsFrom(_, _, _)
CodeActionsFrom(uri, diagnostics, k) ==
    IF k > Len(diagnostics) THEN <<>>
    ELSE (IF /\ diagnostics[k].code # Undefined
             /\ startsWith(diagnostics[k].code, MissingMetaPrefix)
            THEN <<InsertKeyFix(uri, diagnostics[k])>> ELSE <<>>)
         \o CodeActionsFrom(uri, diagnostics, k + 1)

provideCodeActions(uri, diagnostics) == CodeActionsFrom(uri, diagnostics, 1)

\* The host applying WorkspaceEdit.insert(uri, position, newText) to the text
ApplyInsert(text, edit) ==
    LET at == offsetAt(text, edit.position)
    IN  SubSeq(text, 1, at) \o edit.newText \o SubSeq(text, at + 1, Len(text))

----------------------------------------------------------------------------
(* The completion provider (lines 186-198). *)

provideCompletionItems(table) ==
    LET keys == Keys(table)
    IN  [i \in 1..Len(keys) |->
            [label |-> toLowerCase(keys[i]), kind |-> "Keyword",
             insertText |-> toLowerCase(keys[i]), detail |-> "Carnival instruction"]]

----------------------------------------------------------------------------
(* Bounds and inputs. *)

MaxLines == 2    \* a document of Spec is typed into while it has fewer line breaks
MaxDocLines == 1    \* the same, for the two documents of SpecDocs
MaxPieces == 3    \* pieces of an initial text of SpecMeta
MaxChars == 4    \* characters of an initial text of SpecReg
MaxArgs == 3    \* operand tokens of an initial line of SpecLine

LanguageIds == {"carnival", "plaintext"}

\* What the user types in Spec: whole lines, with LF or CRLF line ends
TypedTexts == {
    <<"a","d","d"," ","r","7","7"," ","'","a"," ","b","'"," ","x","\n">>,
    <<" "," ","F","O","O"," ","r","1","6","\r","\n">>,
    <<"B","R","Z"," ","R","9","9"," ","m","e","t","a",".","n","a","m","e","\n">>
}

\* What the user types in SpecDocs
DocTypedTexts == {
    <<"P","O","P"," ","r","2","0","\n">>,
    <<"h","l","t","\n">>
}

LineBreaks(text) == Cardinality({i \in 1..Len(text) : text[i] = "\n"})

NoEvent == [kind |-> "none", uri |-> "none"]

----------------------------------------------------------------------------
(* The event handler and the host's events. *)

\* updateDiagnostics with the new findings pushed after the stored ones
updateDiagnosticsMerging(uri, doc) ==
    IF doc.languageId # "carnival"
    THEN UNCHANGED diagnosticCollection
    ELSE diagnosticCollection' =
            [diagnosticCollection EXCEPT ![uri] = @ \o Validate(INSTRUCTIONS, doc.text)]

\* updateDiagnostics(doc) (lines 35-133), for the document doc at uri
updateDiagnostics(uri, doc) ==
    IF doc.languageId # "carnival"
    THEN UNCHANGED diagnosticCollection
    ELSE diagnosticCollection' =
            [diagnosticCollection EXCEPT ![uri] = Validate(INSTRUCTIONS, doc.text)]

\* vscode.workspace.onDidOpenTextDocument(updateDiagnostics)
Open(uri) ==
    /\ lastEvent' = [kind |-> "open", uri |-> uri]
    /\ updateDiagnostics(uri, docs[uri])
    /\ UNCHANGED <<docs, INSTRUCTIONS, completionItems>>

\* vscode.workspace.onDidSaveTextDocument(updateDiagnostics)
Save(uri) ==
    /\ lastEvent' = [kind |-> "save", uri |-> uri]
    /\ updateDiagnostics(uri, docs[uri])
    /\ UNCHANGED <<docs, INSTRUCTIONS, completionItems>>

\* vscode.workspace.onDidChangeTextDocument(e => updateDiagnostics(e.document)):
\* the user types `typed` at the end of the document
Change(uri, typed, maxLines) ==
    /\ LineBreaks(docs[uri].text) < maxLines
    /\ docs' = [docs EXCEPT ![uri].text = @ \o typed]
    /\ lastEvent' = [kind |-> "change", uri |-> uri]
    /\ updateDiagnostics(uri, docs'[uri])
    /\ UNCHANGED <<INSTRUCTIONS, completionItems>>

\* The user changes the document's language: the host closes the document and
\* opens it again under the new language id, firing onDidOpenTextDocument
ChangeLanguage(uri, languageId) ==
    /\ languageId # docs[uri].languageId
    /\ docs' = [docs EXCEPT ![uri].languageId = languageId]
    /\ lastEvent' = [kind |-> "open", uri |-> uri]
    /\ updateDiagnostics(uri, docs'[uri])
    /\ UNCHANGED <<INSTRUCTIONS, completionItems>>

\* The user picks one of the code actions offered for the document's diagnostics
\* (the provider is registered for "carnival" documents); the host applies its
\* edit and fires onDidChangeTextDocument
ApplyQuickFix(uri, k) ==
    /\ docs[uri].languageId = "carnival"
    /\ LET fixes == provideCodeActions(uri, diagnosticCollection[uri])
       IN  /\ k \in 1..Len(fixes)
           /\ docs' = [docs EXCEPT ![uri].text = ApplyInsert(@, fixes[k].edit)]
    /\ lastEvent' = [kind |-> "quickfix", uri |-> uri]
    /\ updateDiagnostics(uri, docs'[uri])
    /\ UNCHANGED <<INSTRUCTIONS, completionItems>>

\* Completion that takes the keys off the table itself (Array.prototype.pop)
CompletePopping(uri) ==
    /\ docs[uri].languageId = "carnival"
    /\ completionItems' = provideCompletionItems(INSTRUCTIONS)
    /\ INSTRUCTIONS' = SubSeq(INSTRUCTIONS, 1, Len(INSTRUCTIONS) - 1)
    /\ UNCHANGED <<docs, diagnosticCollection, lastEvent>>

\* The host asks for completions in a "carnival" document
Complete(uri) ==
    /\ docs[uri].languageId = "carnival"
    /\ completionItems' = provideCompletionItems(INSTRUCTIONS)
    /\ UNCHANGED <<docs, diagnosticCollection, INSTRUCTIONS, lastEvent>>

----------------------------------------------------------------------------
(* Spec: one document, every event, quick fixes and completion. *)

Init ==
    /\ docs = [uri \in {"a"} |-> [text |-> <<>>, languageId |-> "carnival"]]
    /\ diagnosticCollection = [uri \in {"a"} |-> <<>>]
    /\ INSTRUCTIONS = InstructionTable
    /\ lastEvent = NoEvent
    /\ completionItems = <<>>

Next ==
    \/ \E uri \in DOMAIN docs : Open(uri)
    \/ \E uri \in DOMAIN docs : Save(uri)
    \/ \E uri \in DOMAIN docs, typed \in TypedTexts : Change(uri, typed, MaxLines)
    \/ \E uri \in DOMAIN docs, languageId \in LanguageIds : ChangeLanguage(uri, languageId)
    \/ \E uri \in DOMAIN docs, k \in 1..Len(requiredKeys) : ApplyQuickFix(uri, k)
    \/ \E uri \in DOMAIN docs : Complete(uri)

Spec == Init /\ [][Next]_vars

----------------------------------------------------------------------------
(* The validation events alone, for the specifications whose initial text is *)
(* drawn from a set of inputs.                                               *)

NextValidate ==
    \/ \E uri \in DOMAIN docs : Open(uri)
    \/ \E uri \in DOMAIN docs : Save(uri)

\* The concatenation of a sequence of strings
RECURSIVE Concat(_)
Concat(pieces) ==
    IF pieces = <<>> THEN <<>> ELSE Head(pieces) \o Concat(Tail(pieces))

\* The sequences of at most n elements of S
SeqsUpTo(S, n) == UNION {[1..k -> S] : k \in 0..n}

InitWith(text) ==
    /\ docs = [uri \in {"a"} |-> [text |-> text, languageId |-> "carnival"]]
    /\ diagnosticCollection = [uri \in {"a"} |-> <<>>]
    /\ INSTRUCTIONS = InstructionTable
    /\ lastEvent = NoEvent
    /\ completionItems = <<>>

(* SpecMeta: texts made of meta keys, a partial key, comment starts, quotes *)
(* and line breaks.                                                        *)

MetaPieces == {MetaName, MetaVersion, MetaAuthor,
               <<"#", " ">>, <<"'">>, <<"\n">>, <<"m","e","t","a",".">>}

InitMeta == \E pieces \in SeqsUpTo(MetaPieces, MaxPieces) : InitWith(Concat(pieces))

SpecMeta == InitMeta /\ [][NextValidate]_vars

(* SpecReg: every short text over a few characters. *)

RegChars == {"r", "R", "1", "5", "6", " ", "\n"}

InitReg == \E text \in SeqsUpTo(RegChars, MaxChars) : InitWith(text)

SpecReg == InitReg /\ [][NextValidate]_vars

(* SpecLine: a line made of a first token and operand tokens, after a prefix. *)

\* Nothing, an indent, or a first line `hlt` (CRLF) and an indent
Prefixes == {<<>>, <<" ", " ">>, <<"h","l","t","\r","\n"," ">>}

FirstTokens == {
    <<"M","O","V">>, <<"A","D","D">>, <<"r","e","t">>, <<"O","U","T">>, <<"J","M","P">>,
    <<"F","O","O">>, <<"#","c">>, <<".","l","o","o","p">>, MetaName
}

\* The operand tokens tried in the i-th operand position: in each of the first
\* three, a register, an out-of-range register, a number, a label and a string
ArgTokens(i) ==
    CASE i = 1 -> {<<"r","1">>, <<"r","9","9">>, <<"5">>, <<"x","_","1">>,
                   <<"'","a"," ","b","'">>}
      [] i = 2 -> {<<"r","2">>, <<"r","9","9">>, <<"5">>, <<"x","_","1">>,
                   <<"'","a"," ","b","'">>}
      [] i = 3 -> {<<"r","1">>, <<"r","9","9">>, <<"9","9">>, <<"x","_","1">>,
                   <<"'","a"," ","b","'">>}
      [] OTHER -> {<<"5">>, <<"x","_","1">>}

\* The operand lists of at most n tokens
RECURSIVE ArgLists(_)
ArgLists(n) ==
    IF n = 0 THEN {<<>>}
    ELSE ArgLists(n - 1) \cup
         {Append(args, token) : args \in {a \in ArgLists(n - 1) : Len(a) = n - 1},
                                token \in ArgTokens(n)}

RECURSIVE JoinArgs(_)
JoinArgs(args) ==
    IF args = <<>> THEN <<>> ELSE <<" ">> \o Head(args) \o JoinArgs(Tail(args))

InitLine ==
    \E prefix \in Prefixes, first \in FirstTokens, args \in ArgLists(MaxArgs) :
        InitWith(prefix \o first \o JoinArgs(args))

SpecLine == InitLine /\ [][NextValidate]_vars

(* SpecDocs: two documents, the events and language changes. *)

InitDocs ==
    /\ docs \in [{"a", "b"} -> [text : {<<>>}, languageId : LanguageIds]]
    /\ diagnosticCollection = [uri \in {"a", "b"} |-> <<>>]
    /\ INSTRUCTIONS = InstructionTable
    /\ lastEvent = NoEvent
    /\ completionItems = <<>>

NextDocs ==
    \/ \E uri \in DOMAIN docs : Open(uri)
    \/ \E uri \in DOMAIN docs : Save(uri)
    \/ \E uri \in DOMAIN docs, typed \in DocTypedTexts : Change(uri, typed, MaxDocLines)
    \/ \E uri \in DOMAIN docs, languageId \in LanguageIds : ChangeLanguage(uri, languageId)

SpecDocs == InitDocs /\ [][NextDocs]_vars

----------------------------------------------------------------------------
(* Properties.  Stored(uri) is what the collection holds for the document;  *)
(* Validated(uri) says the last event was delivered for the document while  *)
(* its language id was "carnival".                                          *)

Stored(uri) == diagnosticCollection[uri]

Validated(uri) ==
    /\ lastEvent.kind # "none"
    /\ lastEvent.uri = uri
    /\ docs[uri].languageId = "carnival"

CheckCTemplates == {"Invalid instruction", "Argument count", "Invalid argument"}

\* The positions of the findings of D that satisfy P
Where(D, P(_)) == {i \in 1..Len(D) : P(D[i])}

(* C1.  As stated: after every open, save or change event for a document,   *)
(* the findings stored under the document are exactly the findings of its   *)
(* text at that event.  The handler returns early for a document whose      *)
(* language id is not "carnival" and leaves the stored list as it was.      *)
C1_AsStated ==
    lastEvent.kind # "none" =>
        Stored(lastEvent.uri) = Validate(INSTRUCTIONS, docs[lastEvent.uri].text)

(* C1, amended: after every open, save or change event for a document whose *)
(* language id is "carnival", the findings stored under the document are    *)
(* exactly the findings of its text at that event (the stored list is       *)
(* wholly replaced).                                                        *)
C1_ReplacedForCarnival ==
    \A uri \in DOMAIN docs :
        Validated(uri) => Stored(uri) = Validate(INSTRUCTIONS, docs[uri].text)

\* A change event for "a" whose text and findings differ from those of "b",
\* which also holds findings
C1_Witness ==
    /\ lastEvent = [kind |-> "change", uri |-> "a"]
    /\ docs["a"].languageId = "carnival"
    /\ LineBreaks(docs["a"].text) >= 1
    /\ "b" \in DOMAIN docs
    /\ Stored("b") # <<>>
    /\ Stored("a") # Stored("b")

(* C2.  Check A: for each of meta.name, meta.version, meta.author, the      *)
(* findings hold exactly one Info finding at (0,0) with code missing_<key>  *)
(* if the key occurs nowhere in the text and none if it occurs anywhere;    *)
(* these are the only Info findings, in the order name, version, author.    *)
MetaKeyCodes == <<
    [key  |-> <<"m","e","t","a",".","n","a","m","e">>,
     code |-> <<"m","i","s","s","i","n","g","_","m","e","t","a",".","n","a","m","e">>],
    [key  |-> <<"m","e","t","a",".","v","e","r","s","i","o","n">>,
     code |-> <<"m","i","s","s","i","n","g","_","m","e","t","a",".","v","e","r","s","i","o","n">>],
    [key  |-> <<"m","e","t","a",".","a","u","t","h","o","r">>,
     code |-> <<"m","i","s","s","i","n","g","_","m","e","t","a",".","a","u","t","h","o","r">>]
>>

KeyOccurs(key, text) ==
    \E i \in 1..Len(text) :
        \A j \in 1..Len(key) : i + j - 1 <= Len(text) /\ text[i + j - 1] = key[j]

IsInfo(d) == d.severity = "Information"

\* C2: one Info finding at (0,0) per absent key, none for a key that occurs
C2_MetaFindings ==
    \A uri \in DOMAIN docs :
        Validated(uri) =>
            LET D == Stored(uri)
                text == docs[uri].text
                absent == {k \in 1..3 : ~KeyOccurs(MetaKeyCodes[k].key, text)}
                infos == SelectSeq(D, IsInfo)
            IN  /\ \A k \in 1..3 :
                    LET at == {i \in 1..Len(D) : D[i].code = MetaKeyCodes[k].code}
                    IN  /\ Cardinality(at) = IF k \in absent THEN 1 ELSE 0
                        /\ \A i \in at : IsInfo(D[i]) /\ D[i].range = <<0, 0, 0, 0>>
                /\ Len(infos) = Cardinality(absent)
                /\ \A i, j \in 1..Len(infos) :
                    i < j => \E k, l \in absent :
                                /\ k < l
                                /\ infos[i].code = MetaKeyCodes[k].code
                                /\ infos[j].code = MetaKeyCodes[l].code
                /\ absent = {1, 2, 3} =>
                    [i \in 1..Len(infos) |-> infos[i].code] =
                        <<MetaKeyCodes[1].code, MetaKeyCodes[2].code, MetaKeyCodes[3].code>>

\* meta.name occurs only inside a comment and is not reported; the other two are
C2_Witness ==
    /\ Validated("a")
    /\ docs["a"].text = <<"#", " ">> \o MetaKeyCodes[1].key
    /\ Len(Stored("a")) = 2
    /\ Stored("a")[1].code = MetaKeyCodes[2].code
    /\ Stored("a")[2].code = MetaKeyCodes[3].code

(* C3.  Check B: an 'Invalid register' Error finding exists for a range if  *)
(* and only if the range is a whole-word occurrence of r/R followed by 1-2  *)
(* digits whose value is outside [0,15]; the finding spans exactly the      *)
(* token, there is one finding per occurrence, and a token with value in    *)
(* [0,15] gets none.                                                        *)
WordChar(c) ==
    \/ c \in {"_", "0", "1", "2", "3", "4", "5", "6", "7", "8", "9"}
    \/ c \in LowerLetters
    \/ c \in UpperLetters

DecimalDigit(c) == c \in {"0", "1", "2", "3", "4", "5", "6", "7", "8", "9"}

\* text[from+1 .. from+len] is r/R and 1-2 digits, with no word character on either side
RegisterTokenAt(text, from, len) ==
    /\ len \in {2, 3}
    /\ from + len <= Len(text)
    /\ text[from + 1] \in {"r", "R"}
    /\ \A i \in (from + 2)..(from + len) : DecimalDigit(text[i])
    /\ from = 0 \/ ~WordChar(text[from])
    /\ from + len = Len(text) \/ ~WordChar(text[from + len + 1])

RegisterNumber(text, from, len) ==
    IF len = 2 THEN DigitValue[text[from + 2]]
    ELSE 10 * DigitValue[text[from + 2]] + DigitValue[text[from + 3]]

BadRegisterTokens(text) ==
    {t \in (0..Len(text)) \X {2, 3} :
        /\ RegisterTokenAt(text, t[1], t[2])
        /\ RegisterNumber(text, t[1], t[2]) \notin 0..15}

LineOfOffset(text, offset) == Cardinality({i \in 1..offset : text[i] = "\n"})

ColumnOfOffset(text, offset) ==
    offset - Cardinality({i \in 1..offset : \E j \in i..offset : text[j] = "\n"})

SpanOf(text, from, len) ==
    <<LineOfOffset(text, from), ColumnOfOffset(text, from),
      LineOfOffset(text, from + len), ColumnOfOffset(text, from + len)>>

IsCheckB(d) == d.message.template = "Invalid register"

\* C3: the 'Invalid register' findings are the out-of-range register tokens
C3_RegisterFindings ==
    \A uri \in DOMAIN docs :
        Validated(uri) =>
            LET text == docs[uri].text
                B == SelectSeq(Stored(uri), IsCheckB)
                bad == BadRegisterTokens(text)
            IN  /\ {B[i].range : i \in 1..Len(B)} =
                        {SpanOf(text, t[1], t[2]) : t \in bad}
                /\ Len(B) = Cardinality(bad)
                /\ \A i \in 1..Len(B) : B[i].severity = "Error"
                /\ \A t \in bad :
                    \E i \in 1..Len(B) :
                        /\ B[i].range = SpanOf(text, t[1], t[2])
                        /\ B[i].message.argument = SubSeq(text, t[1] + 1, t[1] + t[2])

\* r16 on the second line is reported over columns 0-3 of line 1
C3_Witness ==
    /\ Validated("a")
    /\ docs["a"].text = <<"\n", "R", "1", "6">>
    /\ \E i \in 1..Len(Stored("a")) :
        /\ IsCheckB(Stored("a")[i])
        /\ Stored("a")[i].range = <<1, 0, 1, 3>>

----------------------------------------------------------------------------
(* Lines and tokens, as the properties of Check C read them off the text:   *)
(* line n is what lies between the n-th line break and the next one, less a *)
(* carriage return before the break; a token is a single-quoted span or a   *)
(* run of non-blank characters, given by its first and last column          *)
(* (1-based) in the line.                                                   *)

BreaksOf(text) == {i \in 1..Len(text) : text[i] = "\n"}

LineAt(text, n) ==
    LET breaks == BreaksOf(text)
        start == CHOOSE i \in {0} \cup breaks :
                    Cardinality({j \in breaks : j <= i}) = n
        later == {j \in breaks : j > start}
        stop  == IF later = {} THEN Len(text) + 1
                 ELSE CHOOSE j \in later : \A l \in later : j <= l
        last  == IF stop <= Len(text) /\ stop - 1 > start /\ text[stop - 1] = "\r"
                 THEN stop - 2 ELSE stop - 1
    IN  SubSeq(text, start + 1, last)

Blank(c) == c \in {" ", "\t", "\r", "\n"}

RECURSIVE TokenSpans(_, _)
TokenSpans(line, from) ==
    LET begins == {p \in from..Len(line) : ~Blank(line[p])}
    IN  IF begins = {} THEN <<>>
        ELSE
        LET b == CHOOSE p \in begins : \A q \in begins : p <= q
            quotes == {q \in (b + 1)..Len(line) : line[q] = "'"}
            blanks == {q \in (b + 1)..Len(line) : Blank(line[q])}
            e == IF line[b] = "'" /\ quotes # {}
                 THEN CHOOSE q \in quotes : \A r \in quotes : q <= r
                 ELSE IF blanks = {} THEN Len(line)
                 ELSE (CHOOSE q \in blanks : \A r \in blanks : q <= r) - 1
        IN  <<<<b, e>>>> \o TokenSpans(line, e + 1)

TokensOf(line) ==
    LET spans == TokenSpans(line, 1)
    IN  [i \in 1..Len(spans) |-> SubSeq(line, spans[i][1], spans[i][2])]

CatalogHas(mnemonic) ==
    \E i \in 1..Len(INSTRUCTIONS) : INSTRUCTIONS[i].mnemonic = mnemonic

SlotsOf(mnemonic) ==
    LET i == CHOOSE j \in 1..Len(INSTRUCTIONS) : INSTRUCTIONS[j].mnemonic = mnemonic
    IN  INSTRUCTIONS[i].signature

\* The Check C findings of D for line n
LineFindings(D, n) ==
    SelectSeq(D, LAMBDA d : d.message.template \in CheckCTemplates /\ d.range[1] = n)

IsArity(d) == d.message.template = "Argument count"
IsType(d) == d.message.template = "Invalid argument"
IsUnknown(d) == d.message.template = "Invalid instruction"

\* Line n starts with a Catalog mnemonic (in any case)
KnownLine(text, n) ==
    LET tokens == TokensOf(LineAt(text, n))
    IN  tokens # <<>> /\ CatalogHas(toUpperCase(tokens[1]))

(* C4.  Check C arity: a line whose first token, uppercased, is a Catalog   *)
(* mnemonic and whose operand count differs from the slot count gets        *)
(* exactly one Check C finding, the Error reporting expected and actual     *)
(* count, and no operand-type finding; no line has both an arity finding    *)
(* and a type finding.                                                      *)
C4_Arity ==
    \A uri \in DOMAIN docs :
        Validated(uri) =>
            \A n \in 0..LineBreaks(docs[uri].text) :
                LET tokens == TokensOf(LineAt(docs[uri].text, n))
                    F == LineFindings(Stored(uri), n)
                IN  /\ ~(Where(F, IsArity) # {} /\ Where(F, IsType) # {})
                    /\ (/\ KnownLine(docs[uri].text, n)
                        /\ Len(tokens) - 1 # Len(SlotsOf(toUpperCase(tokens[1])))) =>
                            /\ Len(F) = 1
                            /\ IsArity(F[1])
                            /\ F[1].severity = "Error"
                            /\ F[1].message.expected = Len(SlotsOf(toUpperCase(tokens[1])))
                            /\ F[1].message.got = Len(tokens) - 1

\* `MOV 5`: expects 2 argument(s), got 1
C4_Witness ==
    /\ Validated("a")
    /\ docs["a"].text = <<"M","O","V"," ","5">>
    /\ LET F == LineFindings(Stored("a"), 0)
       IN  /\ Len(F) = 1
           /\ IsArity(F[1])
           /\ F[1].message.expected = 2
           /\ F[1].message.got = 1

(* C5.  Check C unrecognized instruction: a non-blank line (leading         *)
(* whitespace allowed) whose first token, uppercased, is not in the Catalog *)
(* and which does not begin with '#' or '.' and is not exactly one of the   *)
(* three meta keys gets exactly one Check C finding, an Error whose span is *)
(* the first token's range in the line, and no arity or type finding.       *)
C5_UnknownInstruction ==
    \A uri \in DOMAIN docs :
        Validated(uri) =>
            \A n \in 0..LineBreaks(docs[uri].text) :
                LET line == LineAt(docs[uri].text, n)
                    spans == TokenSpans(line, 1)
                    tokens == TokensOf(line)
                    F == LineFindings(Stored(uri), n)
                IN  (/\ tokens # <<>>
                     /\ ~CatalogHas(toUpperCase(tokens[1]))
                     /\ tokens[1][1] \notin {"#", "."}
                     /\ \A k \in 1..3 : tokens[1] # MetaKeyCodes[k].key) =>
                        /\ Len(F) = 1
                        /\ IsUnknown(F[1])
                        /\ F[1].severity = "Error"
                        /\ F[1].range = <<n, spans[1][1] - 1, n, spans[1][2]>>

(* C6.  As stated: validating the line `MOV r1 5` produces no finding for   *)
(* the line.                                                                *)
MovR1Five == <<"M","O","V"," ","r","1"," ","5">>

C6_AsStated ==
    (Validated("a") /\ docs["a"].text = MovR1Five) =>
        LineFindings(Stored("a"), 0) = <<>>

(* C6, amended: validating the line `MOV r1 5` produces exactly one finding *)
(* for the line, the operand-type Error for operand 5 (MOV's second slot    *)
(* accepts a Register only), and no arity finding.                          *)
C6_MovR1Five ==
    (Validated("a") /\ docs["a"].text = MovR1Five) =>
        LET F == LineFindings(Stored("a"), 0)
        IN  /\ Len(F) = 1
            /\ IsType(F[1])
            /\ F[1].severity = "Error"
            /\ F[1].message.argument = <<"5">>
            /\ F[1].message.kinds = <<"Reg">>
            /\ F[1].message.instruction = <<"M","O","V">>

C6_Witness ==
    /\ Validated("a")
    /\ docs["a"].text = MovR1Five
    /\ Len(Stored("a")) = 4

(* C7.  Check C operand types: on a line with a Catalog mnemonic and        *)
(* matching arity, the type findings are one per slot whose operand matches *)
(* none of the slot's kinds (Register: r/R and 1-2 digits, range not        *)
(* checked; Number: one or more digits; Label: '.', letter or underscore,   *)
(* then word characters or dots; String: single-quote delimited), and they  *)
(* are the line's only Check C findings; `ADD r1 r2 99` has exactly one,    *)
(* for operand 99.                                                          *)
Letter(c) == c \in LowerLetters \/ c \in UpperLetters

HasKind(kind, token) ==
    CASE kind = "Reg" ->
            /\ Len(token) \in {2, 3}
            /\ token[1] \in {"r", "R"}
            /\ \A i \in 2..Len(token) : DecimalDigit(token[i])
      [] kind = "Num" ->
            /\ token # <<>>
            /\ \A i \in 1..Len(token) : DecimalDigit(token[i])
      [] kind = "Label" ->
            /\ token # <<>>
            /\ (token[1] = "." \/ token[1] = "_" \/ Letter(token[1]))
            /\ \A i \in 2..Len(token) : WordChar(token[i]) \/ token[i] = "."
      [] kind = "String" ->
            /\ Len(token) >= 2
            /\ token[1] = "'"
            /\ token[Len(token)] = "'"
      [] OTHER -> FALSE

\* The slots of the line's signature whose operand has none of the slot's kinds
BadSlots(tokens) ==
    LET slots == SlotsOf(toUpperCase(tokens[1]))
    IN  {s \in 1..Len(slots) :
            \A k \in 1..Len(slots[s]) : ~HasKind(slots[s][k], tokens[s + 1])}

AddR1R2NinetyNine == <<"A","D","D"," ","r","1"," ","r","2"," ","9","9">>

\* C7: one type finding per slot whose operand has none of the slot's kinds
C7_OperandTypes ==
    \A uri \in DOMAIN docs :
        Validated(uri) =>
            /\ \A n \in 0..LineBreaks(docs[uri].text) :
                LET tokens == TokensOf(LineAt(docs[uri].text, n))
                    F == LineFindings(Stored(uri), n)
                IN  (/\ KnownLine(docs[uri].text, n)
                     /\ Len(tokens) - 1 = Len(SlotsOf(toUpperCase(tokens[1])))) =>
                        /\ Len(F) = Cardinality(BadSlots(tokens))
                        /\ \A i \in 1..Len(F) : IsType(F[i]) /\ F[i].severity = "Error"
                        /\ \A s \in BadSlots(tokens) :
                            \E i \in 1..Len(F) :
                                /\ F[i].message.argument = tokens[s + 1]
                                /\ F[i].message.kinds =
                                        SlotsOf(toUpperCase(tokens[1]))[s]
            /\ docs[uri].text = AddR1R2NinetyNine =>
                LET F == LineFindings(Stored(uri), 0)
                IN  Len(F) = 1 /\ IsType(F[1]) /\ F[1].message.argument = <<"9","9">>

\* `ADD r1 r2 99`: one type finding, for 99
C7_Witness ==
    /\ Validated("a")
    /\ docs["a"].text = AddR1R2NinetyNine
    /\ LET F == LineFindings(Stored("a"), 0)
       IN  Len(F) = 1 /\ IsType(F[1]) /\ F[1].message.argument = <<"9","9">>

----------------------------------------------------------------------------
(* C8.  Order of the findings of a run: Check A findings, then Check B      *)
(* findings, then Check C findings; Check A in the order name, version,     *)
(* author; Check B in order of occurrence in the text; Check C in           *)
(* increasing line order and, within a line, in increasing slot order.      *)
IsCheckA(d) == d.message.template = "Missing key"

Rank(d) == IF IsCheckA(d) THEN 1 ELSE IF IsCheckB(d) THEN 2 ELSE 3

KeyIndex(d) == CHOOSE k \in 1..3 : d.code = MetaKeyCodes[k].code

Before(r1, r2) == r1[1] < r2[1] \/ (r1[1] = r2[1] /\ r1[2] < r2[2])

\* The i-th smallest element of a set of numbers
Nth(S, i) == CHOOSE s \in S : Cardinality({b \in S : b < s}) = i - 1

\* C8: Check A, then B, then C; each in key, text, line and slot order
C8_Order ==
    \A uri \in DOMAIN docs :
        Validated(uri) =>
            LET D == Stored(uri)
                text == docs[uri].text
            IN  /\ \A i, j \in 1..Len(D) :
                    i < j =>
                        /\ Rank(D[i]) <= Rank(D[j])
                        /\ (IsCheckA(D[i]) /\ IsCheckA(D[j])) => KeyIndex(D[i]) < KeyIndex(D[j])
                        /\ (IsCheckB(D[i]) /\ IsCheckB(D[j])) => Before(D[i].range, D[j].range)
                        /\ (Rank(D[i]) = 3 /\ Rank(D[j]) = 3) => D[i].range[1] <= D[j].range[1]
                /\ \A n \in 0..LineBreaks(text) :
                    LET tokens == TokensOf(LineAt(text, n))
                        F == SelectSeq(LineFindings(D, n), IsType)
                    IN  F # <<>> =>
                            /\ Len(F) = Cardinality(BadSlots(tokens))
                            /\ \A i \in 1..Len(F) :
                                LET s == Nth(BadSlots(tokens), i)
                                IN  /\ F[i].message.argument = tokens[s + 1]
                                    /\ F[i].message.kinds = SlotsOf(toUpperCase(tokens[1]))[s]

\* Three Check A findings, two Check B findings on different lines, two type
\* findings for line 0 and an unrecognized instruction on line 1
C8_Witness ==
    /\ Validated("a")
    /\ LET D == Stored("a")
       IN  /\ Cardinality(Where(D, IsCheckA)) = 3
           /\ Cardinality(Where(D, IsCheckB)) = 2
           /\ Len(SelectSeq(LineFindings(D, 0), IsType)) = 2
           /\ Len(SelectSeq(LineFindings(D, 1), IsUnknown)) = 1

(* C9.  As stated: the Catalog has exactly 23 mnemonics, all uppercase, and *)
(* no validation, quick-fix or completion call changes it.                  *)
AllUppercase(table) ==
    \A i \in 1..Len(table) :
        /\ table[i].mnemonic # <<>>
        /\ \A k \in 1..Len(table[i].mnemonic) : table[i].mnemonic[k] \in UpperLetters

DistinctKeys(table) ==
    \A i, j \in 1..Len(table) : table[i].mnemonic = table[j].mnemonic => i = j

C9_AsStated ==
    /\ Len(INSTRUCTIONS) = 23
    /\ DistinctKeys(INSTRUCTIONS)
    /\ AllUppercase(INSTRUCTIONS)
    /\ INSTRUCTIONS = InstructionTable

(* C9, amended: the Catalog has exactly 25 mnemonics, all uppercase, and no *)
(* validation, quick-fix or completion call changes it.                     *)
C9_CatalogFixed ==
    /\ Len(INSTRUCTIONS) = 25
    /\ DistinctKeys(INSTRUCTIONS)
    /\ AllUppercase(INSTRUCTIONS)
    /\ INSTRUCTIONS = InstructionTable

\* After a completion request, validations and a quick fix
C9_Witness ==
    /\ Len(completionItems) = 25
    /\ lastEvent.kind = "quickfix"
    /\ Stored("a") # <<>>
    /\ Len(INSTRUCTIONS) = 25

(* C10.  Quick-fix convergence: the edit offered for a missing-meta finding *)
(* with key k inserts `<k> '<default>'` and a line break at (0,0) (defaults *)
(* Program, 0.1, Me); after it the findings are the earlier ones without    *)
(* the missing-k finding, the other findings one line down; and applying    *)
(* the fixes for all missing keys, in any order, leaves no meta finding.    *)
Insertions == <<
    MetaKeyCodes[1].key \o <<" ","'","P","r","o","g","r","a","m","'","\n">>,
    MetaKeyCodes[2].key \o <<" ","'","0",".","1","'","\n">>,
    MetaKeyCodes[3].key \o <<" ","'","M","e","'","\n">>
>>

ShiftedDown(d) ==
    IF IsCheckA(d) THEN d
    ELSE [d EXCEPT !.range = <<@[1] + 1, @[2], @[3] + 1, @[4]>>]

Without(D, i) == SubSeq(D, 1, i - 1) \o SubSeq(D, i + 1, Len(D))

C10_Step ==
    \A uri \in DOMAIN docs :
        (lastEvent' = [kind |-> "quickfix", uri |-> uri] /\ docs' # docs) =>
            \E k \in 1..3 :
                \E i \in 1..Len(Stored(uri)) :
                    /\ Stored(uri)[i].code = MetaKeyCodes[k].code
                    /\ docs'[uri].text = Insertions[k] \o docs[uri].text
                    /\ diagnosticCollection'[uri] =
                            [j \in 1..(Len(Stored(uri)) - 1) |->
                                ShiftedDown(Without(Stored(uri), i)[j])]

RECURSIVE FixedInOrder(_, _)
FixedInOrder(text, order) ==
    IF order = <<>> THEN text
    ELSE FixedInOrder(Insertions[Head(order)] \o text, Tail(order))

C10_Converges ==
    \A uri \in DOMAIN docs :
        Validated(uri) =>
            LET missing == {k \in 1..3 :
                                \E i \in 1..Len(Stored(uri)) :
                                    Stored(uri)[i].code = MetaKeyCodes[k].code}
                orders == {o \in [1..Cardinality(missing) -> missing] :
                                \A i, j \in DOMAIN o : o[i] = o[j] => i = j}
            IN  \A o \in orders :
                    Where(Validate(INSTRUCTIONS, FixedInOrder(docs[uri].text, o)),
                          IsCheckA) = {}

\* C10: every quick-fix step removes just the fixed finding and shifts the
\* others down a line, and the fixes for all missing keys leave no meta finding
C10_QuickFix == [][C10_Step]_vars /\ []C10_Converges

\* meta.version has just been inserted: the two other meta findings remain and
\* the invalid register of the first typed line is now reported on line 1
C10_Witness ==
    /\ lastEvent = [kind |-> "quickfix", uri |-> "a"]
    /\ startsWith(docs["a"].text, Insertions[2] \o <<"a","d","d">>)
    /\ LET D == Stored("a")
       IN  /\ Len(D) >= 3
           /\ D[1].code = MetaKeyCodes[1].code
           /\ D[2].code = MetaKeyCodes[3].code
           /\ IsCheckB(D[3])
           /\ D[3].range[1] = 1

====
